---------------------------- MODULE Spec2Model ----------------------------
(***************************************************************************)
(* Prefix / postfix (Polish notation) expression evaluators.               *)
(*                                                                         *)
(*   src/eval_rpn.py     postfix evaluator: one operand stack              *)
(*   src/eval_prefix.py  forward-scan prefix evaluator: token stack and    *)
(*                       count stack                                       *)
(*                                                                         *)
(* An input string is modelled after expr.split(): a sequence of token     *)
(* texts.  The tokenizer is a generator: a token is parsed when the        *)
(* evaluator asks for it, not before.                                      *)
(*                                                                         *)
(* Numbers are exact rationals n/d (d > 0, lowest terms).  Python's int,   *)
(* float and bool results are identified with the rational they denote     *)
(* (True = 1, False = 0, 0.0 = -0.0 = 0).  A negative base raised to a     *)
(* non-integral power is a Python complex, kept as the abstract value      *)
(* Complex.  A positive base other than 1 raised to a non-integral power   *)
(* is a float outside the rationals, kept as the abstract value Inexact;   *)
(* the input alphabets below never produce it (see InexactFree).           *)
(***************************************************************************)
EXTENDS Integers, Sequences, FiniteSets, TLC

(***************************************************************************)
(* Bounds of the model.                                                    *)
(***************************************************************************)
MaxLen == 3       \* longest input over the full alphabet
MaxDeep == 5      \* longest input over the nesting alphabet
MaxPow == 5       \* longest input over the power alphabet
MaxNeg == 1       \* the full alphabet has the integer literals -MaxNeg..MaxNum
MaxNum == 2       \* (both bounds inclusive)
MaxLit == 102     \* integer literals |i| <= MaxLit are parseable texts
MaxCall == 2      \* longest input of the repeated-call runs
MaxFair == 2      \* longest input over the full alphabet in the termination runs

(***************************************************************************)
(* Operator table.                                                         *)
(***************************************************************************)
OPCODES == {"+", "-", "*", "/", "//", "%", "^",
            "<", "<=", ">", ">=", "==", "!="}

(***************************************************************************)
(* Values.  One record shape for everything a stack can hold.              *)
(***************************************************************************)
Abs(i) == IF i < 0 THEN -i ELSE i

RECURSIVE GCD(_, _)
GCD(a, b) == IF b = 0 THEN a ELSE GCD(b, a % b)

\* the rational n/d, d # 0, in lowest terms with a positive denominator
Rat(n, d) ==
    LET g == GCD(Abs(n), Abs(d))
        s == IF d < 0 THEN -1 ELSE 1
    IN  [k |-> "num", op |-> "", n |-> (s * n) \div g, d |-> (s * d) \div g]

IntVal(i) == Rat(i, 1)

Complex == [k |-> "complex", op |-> "", n |-> 0, d |-> 1]

Inexact == [k |-> "inexact", op |-> "", n |-> 0, d |-> 1]

Operator(sym) == [k |-> "op", op |-> sym, n |-> 0, d |-> 1]

IsZero(v) == v.k = "num" /\ v.n = 0

IsIntegral(v) == v.k = "num" /\ v.d = 1

\* bool -> number (True == 1, False == 0 in Python)
Bool(b) == IF b THEN IntVal(1) ELSE IntVal(0)

\* floor(a / b) for rationals a, b with b # 0
Floor(a, b) ==
    LET q == Rat(a.n * b.d, a.d * b.n)
    IN  q.n \div q.d

(***************************************************************************)
(* Outcome of applying one operator: a value, or the exception the         *)
(* operator function raises.                                               *)
(***************************************************************************)
Ok(v) == [exc |-> "", v |-> v]

Throw(e) == [exc |-> e, v |-> IntVal(0)]

\* b ** e for integers b and e >= 0 (0 ** 0 is 1)
RECURSIVE IntPow(_, _)
IntPow(b, e) == IF e = 0 THEN 1 ELSE b * IntPow(b, e - 1)

\* operator.pow
Pow(lhs, rhs) ==
    IF lhs.k = "inexact" \/ rhs.k = "inexact" THEN Ok(Inexact)
    ELSE IF rhs.k = "complex"
    THEN IF IsZero(lhs) THEN Throw("ZeroDivisionError") ELSE Ok(Complex)
    ELSE IF lhs.k = "complex" THEN Ok(Complex)
    ELSE IF IsIntegral(rhs)
    THEN IF rhs.n >= 0
         THEN Ok(Rat(IntPow(lhs.n, rhs.n), IntPow(lhs.d, rhs.n)))
         ELSE IF lhs.n = 0 THEN Throw("ZeroDivisionError")
              ELSE Ok(Rat(IntPow(lhs.d, -rhs.n), IntPow(lhs.n, -rhs.n)))
    ELSE IF lhs.n < 0 THEN Ok(Complex)
    ELSE IF lhs.n = 0
    THEN IF rhs.n < 0 THEN Throw("ZeroDivisionError") ELSE Ok(IntVal(0))
    ELSE IF lhs = IntVal(1) THEN Ok(IntVal(1))
    ELSE Ok(Inexact)

\* OPCODES[opcode](lhs, rhs)
_eval_op(lhs, rhs, opcode) ==
    IF opcode \notin OPCODES THEN Throw("KeyError")
    ELSE IF opcode = "^" THEN Pow(lhs, rhs)
    ELSE IF lhs.k = "inexact" \/ rhs.k = "inexact"
    THEN IF opcode \in {"/", "//", "%"} /\ IsZero(rhs)
         THEN Throw("ZeroDivisionError") ELSE Ok(Inexact)
    ELSE IF lhs.k = "complex" \/ rhs.k = "complex"
    THEN CASE opcode \in {"+", "-", "*"} -> Ok(Complex)
           [] opcode = "/" ->
                IF IsZero(rhs) THEN Throw("ZeroDivisionError") ELSE Ok(Complex)
           [] opcode \in {"//", "%", "<", "<=", ">", ">="} -> Throw("TypeError")
           [] opcode = "==" -> Ok(Bool(lhs = rhs))
           [] opcode = "!=" -> Ok(Bool(lhs # rhs))
    ELSE CASE opcode = "+" -> Ok(Rat(lhs.n * rhs.d + rhs.n * lhs.d, lhs.d * rhs.d))
           [] opcode = "-" -> Ok(Rat(lhs.n * rhs.d - rhs.n * lhs.d, lhs.d * rhs.d))
           [] opcode = "*" -> Ok(Rat(lhs.n * rhs.n, lhs.d * rhs.d))
           [] opcode = "/" ->
                IF rhs.n = 0 THEN Throw("ZeroDivisionError")
                ELSE Ok(Rat(lhs.n * rhs.d, lhs.d * rhs.n))
           [] opcode = "//" ->
                IF rhs.n = 0 THEN Throw("ZeroDivisionError")
                ELSE Ok(IntVal(Floor(lhs, rhs)))
           [] opcode = "%" ->
                IF rhs.n = 0 THEN Throw("ZeroDivisionError")
                ELSE LET q == Floor(lhs, rhs)
                     IN  Ok(Rat(lhs.n * rhs.d - q * rhs.n * lhs.d, lhs.d * rhs.d))
           [] opcode = "<"  -> Ok(Bool(lhs.n * rhs.d <  rhs.n * lhs.d))
           [] opcode = "<=" -> Ok(Bool(lhs.n * rhs.d <= rhs.n * lhs.d))
           [] opcode = ">"  -> Ok(Bool(lhs.n * rhs.d >  rhs.n * lhs.d))
           [] opcode = ">=" -> Ok(Bool(lhs.n * rhs.d >= rhs.n * lhs.d))
           [] opcode = "==" -> Ok(Bool(lhs = rhs))
           [] opcode = "!=" -> Ok(Bool(lhs # rhs))

(***************************************************************************)
(* Tokenizer.                                                              *)
(***************************************************************************)
\* the decimal text of every integer the model parses
IntText == [i \in (-MaxLit)..MaxLit |-> ToString(i)]

\* int(text) for every text int() accepts
IntOfText ==
    [t \in {IntText[i] : i \in DOMAIN IntText} |->
        CHOOSE i \in DOMAIN IntText : IntText[i] = t]

\* the float literals the model parses, with the number each denotes
FloatText == [t \in {"0.5", "-0.5"} |-> IF t = "0.5" THEN Rat(1, 2) ELSE Rat(-1, 2)]

TryParseUnsigned(value) ==
    IF value \in DOMAIN IntOfText
    THEN Ok(IntVal(Abs(IntOfText[value])))
    ELSE IF value \in DOMAIN FloatText
    THEN Ok(FloatText[value])
    ELSE Throw("ValueError")

\* int(value), then float(value); ValueError when both fail
_try_parse(value) ==
    IF value \in DOMAIN IntOfText
    THEN Ok(IntVal(IntOfText[value]))
    ELSE IF value \in DOMAIN FloatText
    THEN Ok(FloatText[value])
    ELSE Throw("ValueError")

TokenizePassThrough(token) ==
    IF token \in OPCODES THEN Ok(Operator(token))
    ELSE IF _try_parse(token).exc = "" THEN _try_parse(token)
    ELSE Ok(Operator(token))

\* what the generator yields for one token text, or the exception it raises
_tokenize_expr(token) ==
    IF token \in OPCODES THEN Ok(Operator(token)) ELSE _try_parse(token)

(***************************************************************************)
(* Inputs: token texts after expr.split().                                 *)
(***************************************************************************)
BadSymbols == {"$"}

Alphabet == OPCODES \cup {ToString(i) : i \in (-MaxNeg)..MaxNum} \cup BadSymbols

DeepAlphabet == {"0", "1", "2", "-", "/", "$"}

PowAlphabet == {"-1", "0", "-0.5", "^", "%"}

SeqsUpTo(S, len) == UNION {[1..m -> S] : m \in 0..len}

\* expressions of the test tables of main() and of the documentation
Examples ==
    { <<"10", "7", "2", "3", "*", "+", "-">>,
      <<"10", "5", "*", "6", "2", "+", "/">>,
      <<"3", "4", "+", "5", "4", "^", "+">>,
      <<"102", "0", "/">>,
      <<"-", "10", "+", "7", "*", "2", "3">>,
      <<"/", "*", "10", "5", "+", "6", "2">>,
      <<"+", "^", "5", "4", "+", "3", "4">>,
      <<"+", "<", "1", "9", "9">>,
      <<"1", "2", "3", "+">>,
      <<"+", "1", "2", "3">>,
      <<"+", "10a", "29">>,
      <<"34">> }

Inputs ==
    SeqsUpTo(Alphabet, MaxLen) \cup SeqsUpTo(DeepAlphabet, MaxDeep)
        \cup SeqsUpTo(PowAlphabet, MaxPow) \cup Examples

(***************************************************************************)
(* State.                                                                  *)
(***************************************************************************)
VARIABLES
    notation,     \* "postfix": eval_rpn.eval_postfix_expr,
                  \* "prefix": eval_prefix.eval_prefix_expr,
                  \* "reversal": eval_rpn.eval_prefix_expr
    expr,         \* the input, split into token texts
    pos,          \* number of token texts the generator has taken
    operands,     \* eval_rpn._eval_expr: operand stack, top last
    token_stack,  \* eval_prefix._eval_expr: token stack, top last
    count_stack,  \* eval_prefix._eval_expr: count stack, top last
    pc,           \* "loop" while evaluating, "done" after return or raise
    result,       \* the outcome of the call
    reductions,   \* iterations of the cascade loop in this call
    call,         \* which call of the caller's sequence this is (1, 2, 3)
    first         \* the caller's record of its first call

vars == <<notation, expr, pos, operands, token_stack, count_stack, pc, result,
          reductions, call, first>>

\* what only the caller changes
caller == <<call, first>>

NoResult == [kind |-> "none", exc |-> "", msg |-> "", sym |-> "", v |-> IntVal(0)]

Return(v) == [kind |-> "value", exc |-> "", msg |-> "", sym |-> "", v |-> v]

Raise(exc, msg) == [kind |-> "error", exc |-> exc, msg |-> msg, sym |-> "", v |-> IntVal(0)]

\* ValueError(f"Invalid symbol '{value}' found.")
InvalidSymbol(value) ==
    [kind |-> "error", exc |-> "ValueError", msg |-> "Invalid symbol", sym |-> value,
     v |-> IntVal(0)]

Pop(stack) == SubSeq(stack, 1, Len(stack) - 1)

Top(stack) == stack[Len(stack)]

\* the caller has no finished call yet
NoCall == [notation |-> "", expr |-> <<>>, result |-> NoResult]

\* the state in which a call of an evaluator starts
Start(n, e) ==
    /\ notation = n
    /\ expr = e
    /\ pos = 0
    /\ operands = <<>>
    /\ token_stack = <<>>
    /\ count_stack = <<>>
    /\ pc = "loop"
    /\ result = NoResult
    /\ reductions = 0

Init ==
    /\ \E n \in {"postfix", "prefix", "reversal"} : \E e \in Inputs : Start(n, e)
    /\ call = 1
    /\ first = NoCall

TakenAgain(p) == p

\* "for token in expr.split()": the generator moves on by one text per item
Taken(p) == p + 1

(***************************************************************************)
(* eval_rpn.py: postfix evaluator.                                         *)
(***************************************************************************)
PostfixSwapKept(a, b) == <<a, b>>

_postfix_swap(a, b) == <<b, a>>

_prefix_swap(a, b) == <<a, b>>

NoneLeft(stack) == Len(stack) < 1

\* len(operands) != 1
NotOneLeft(stack) == Len(stack) # 1

\* one iteration of "for tok in tokens" of eval_rpn._eval_expr
PostfixToken ==
    /\ notation = "postfix" /\ pc = "loop" /\ pos < Len(expr)
    /\ pos' = Taken(pos)
    /\ UNCHANGED <<notation, expr, token_stack, count_stack, reductions, caller>>
    /\ LET tok == _tokenize_expr(expr[pos + 1]) IN
       IF tok.exc # ""
       THEN /\ result' = InvalidSymbol(expr[pos + 1])
            /\ pc' = "done"
            /\ UNCHANGED operands
       ELSE IF tok.v.k = "op" /\ tok.v.op \in OPCODES
       THEN IF Len(operands) < 2
            THEN /\ result' = Raise("IndexError", "Invalid expression.")
                 /\ pc' = "done"
                 /\ operands' = <<>>
            ELSE LET a == operands[Len(operands)]
                     b == operands[Len(operands) - 1]
                     sw == IF notation = "postfix" THEN _postfix_swap(a, b)
                           ELSE _prefix_swap(a, b)
                     r == _eval_op(sw[1], sw[2], tok.v.op)
                     rest == SubSeq(operands, 1, Len(operands) - 2)
                 IN  IF r.exc = ""
                     THEN /\ operands' = Append(rest, r.v)
                          /\ UNCHANGED <<pc, result>>
                     ELSE /\ operands' = rest
                          /\ pc' = "done"
                          /\ result' = IF r.exc = "ZeroDivisionError"
                                       THEN Raise("ZeroDivisionError", "Can not divide by zero.")
                                       ELSE IF r.exc = "KeyError"
                                       THEN Raise("KeyError", "Invalid operator.")
                                       ELSE Raise(r.exc, "")
       ELSE /\ operands' = Append(operands, tok.v)
            /\ UNCHANGED <<pc, result>>

\* after the loop of eval_rpn._eval_expr
PostfixFinish ==
    /\ notation = "postfix" /\ pc = "loop" /\ pos = Len(expr)
    /\ pc' = "done"
    /\ UNCHANGED <<notation, expr, pos, token_stack, count_stack, reductions, caller>>
    /\ IF NotOneLeft(operands)
       THEN /\ result' = Raise("ValueError", "Invalid expression.")
            /\ UNCHANGED operands
       ELSE /\ result' = Return(Top(operands))
            /\ operands' = Pop(operands)

\* eval_rpn.eval_prefix_expr: reversed() of the token generator raises
\* TypeError ('generator' object is not reversible) before _eval_expr is called
ReversalEval ==
    /\ notation = "reversal" /\ pc = "loop"
    /\ pc' = "done"
    /\ result' = Raise("TypeError", "")
    /\ UNCHANGED <<notation, expr, pos, operands, token_stack, count_stack,
                   reductions, caller>>

(***************************************************************************)
(* eval_prefix.py: forward-scan prefix evaluator.                          *)
(***************************************************************************)
DecrementAll(counts) == [i \in 1..Len(counts) |-> counts[i] - 1]

\* count_stack[-1] -= 1 when the count stack is not empty
Decrement(counts) ==
    IF counts = <<>> THEN counts
    ELSE [counts EXCEPT ![Len(counts)] = counts[Len(counts)] - 1]

PendingEarly == count_stack # <<>> /\ Top(count_stack) <= 1

\* the condition of the cascade loop
Pending == count_stack # <<>> /\ Top(count_stack) = 0

\* one iteration of "for token in tokens", up to the cascade loop
PrefixToken ==
    /\ notation = "prefix" /\ pc = "loop" /\ ~Pending /\ pos < Len(expr)
    /\ UNCHANGED <<notation, expr, operands, reductions, caller>>
    /\ LET token == _tokenize_expr(expr[pos + 1])
           \* list(tokens): the generator runs through the remaining texts
           bad == {j \in (pos + 2)..Len(expr) : _tokenize_expr(expr[j]).exc # ""}
           firstBad == CHOOSE j \in bad : \A i \in bad : j <= i
       IN
       IF token.exc # ""
       THEN /\ result' = InvalidSymbol(expr[pos + 1])
            /\ pc' = "done"
            /\ pos' = Taken(pos)
            /\ UNCHANGED <<token_stack, count_stack>>
       ELSE IF token.v.k # "op"
       THEN IF token_stack = <<>>
            THEN IF bad # {}
                 THEN /\ result' = InvalidSymbol(expr[firstBad])
                      /\ pc' = "done"
                      /\ pos' = firstBad
                      /\ UNCHANGED <<token_stack, count_stack>>
                 ELSE IF Len(expr) - (pos + 1) > 1
                 THEN /\ result' = Raise("ValueError", "Invalid expression.")
                      /\ pc' = "done"
                      /\ pos' = Len(expr)
                      /\ UNCHANGED <<token_stack, count_stack>>
                 ELSE /\ token_stack' = Append(token_stack, token.v)
                      /\ count_stack' = Decrement(count_stack)
                      /\ pos' = Len(expr)
                      /\ UNCHANGED <<pc, result>>
            ELSE /\ token_stack' = Append(token_stack, token.v)
                 /\ count_stack' = Decrement(count_stack)
                 /\ pos' = Taken(pos)
                 /\ UNCHANGED <<pc, result>>
       ELSE IF token.v.op \in OPCODES
       THEN /\ count_stack' = Append(count_stack, 2)
            /\ token_stack' = Append(token_stack, token.v)
            /\ pos' = Taken(pos)
            /\ UNCHANGED <<pc, result>>
       ELSE /\ result' = Raise("ValueError", "Invalid operator seen.")
            /\ pc' = "done"
            /\ pos' = Taken(pos)
            /\ UNCHANGED <<token_stack, count_stack>>

ApplyPoppedSwapped(rhs, lhs, op) ==
    IF op.k # "op" THEN Throw("KeyError")
    ELSE IF lhs.k = "op" \/ rhs.k = "op" THEN Throw("TypeError")
    ELSE _eval_op(rhs, lhs, op.op)

\* _eval_op(lhs, rhs, op) on the three popped items, in pop order
ApplyPopped(rhs, lhs, op) ==
    IF op.k # "op" THEN Throw("KeyError")
    ELSE IF lhs.k = "op" \/ rhs.k = "op" THEN Throw("TypeError")
    ELSE _eval_op(lhs, rhs, op.op)

\* one iteration of "while count_stack and count_stack[-1] == 0"
PrefixCascade ==
    /\ notation = "prefix" /\ pc = "loop" /\ Pending
    /\ UNCHANGED <<notation, expr, pos, operands, caller>>
    /\ reductions' = reductions + 1
    /\ IF Len(token_stack) < 3
       THEN /\ result' = Raise("ValueError", "Invalid expression.")
            /\ pc' = "done"
            /\ token_stack' = <<>>
            /\ count_stack' = Pop(count_stack)
       ELSE LET rhs == token_stack[Len(token_stack)]
                lhs == token_stack[Len(token_stack) - 1]
                op == token_stack[Len(token_stack) - 2]
                rest == SubSeq(token_stack, 1, Len(token_stack) - 3)
                r == ApplyPopped(rhs, lhs, op)
            IN  IF r.exc = ""
                THEN /\ token_stack' = Append(rest, r.v)
                     /\ count_stack' = Decrement(Pop(count_stack))
                     /\ UNCHANGED <<pc, result>>
                ELSE /\ token_stack' = rest
                     /\ count_stack' = Pop(count_stack)
                     /\ pc' = "done"
                     /\ result' = IF r.exc = "ZeroDivisionError"
                                  THEN Raise("ValueError", "Can not divide by zero.")
                                  ELSE Raise(r.exc, "")

\* after the loop of eval_prefix._eval_expr
PrefixFinish ==
    /\ notation = "prefix" /\ pc = "loop" /\ ~Pending /\ pos = Len(expr)
    /\ pc' = "done"
    /\ UNCHANGED <<notation, expr, pos, operands, count_stack, reductions, caller>>
    /\ IF Len(token_stack) # 1 \/ count_stack # <<>>
       THEN /\ result' = Raise("ValueError", "Invalid expression.")
            /\ UNCHANGED token_stack
       ELSE IF token_stack # <<>>
       THEN /\ result' = Return(Top(token_stack))
            /\ token_stack' = Pop(token_stack)
       ELSE /\ result' = Return(IntVal(0))
            /\ UNCHANGED token_stack

Next ==
    \/ PostfixToken
    \/ PostfixFinish
    \/ ReversalEval
    \/ PrefixToken
    \/ PrefixCascade
    \/ PrefixFinish

Spec == Init /\ [][Next]_vars

\* the evaluation has returned or raised
Done == pc = "done"

\* no value outside the exact number domain is ever computed
InexactFree ==
    /\ \A i \in 1..Len(operands) : operands[i].k # "inexact"
    /\ \A i \in 1..Len(token_stack) : token_stack[i].k # "inexact"
    /\ result.v.k # "inexact"

(***************************************************************************)
(* Reference notions, defined on the input alone.                          *)
(***************************************************************************)
\* every token text is an operator symbol or a parseable number
AllValid(e) == \A j \in 1..Len(e) : _tokenize_expr(e[j]).exc = ""

\* numbers minus operators among the first i tokens
Depth(e, i) ==
    Cardinality({j \in 1..i : e[j] \notin OPCODES})
        - Cardinality({j \in 1..i : e[j] \in OPCODES})

\* the first operator token that finds fewer than two operands, or 0
FirstUnderflow(e) ==
    LET U == {i \in 1..Len(e) : e[i] \in OPCODES /\ Depth(e, i - 1) < 2}
    IN  IF U = {} THEN 0 ELSE CHOOSE i \in U : \A j \in U : i <= j

WellFormedPostfix(e) ==
    /\ AllValid(e)
    /\ Len(e) >= 1
    /\ FirstUnderflow(e) = 0
    /\ Depth(e, Len(e)) = 1

\* exactly one complete prefix expression
WellFormedPrefix(e) ==
    /\ AllValid(e)
    /\ Len(e) >= 1
    /\ Depth(e, Len(e)) = 1
    /\ \A i \in 1..(Len(e) - 1) : Depth(e, i) <= 0

\* the value of a well-formed postfix expression: (lhs op rhs), by structure
RECURSIVE PostfixValue(_)
PostfixValue(e) ==
    IF Len(e) = 1 THEN _tokenize_expr(e[1])
    ELSE LET m == Len(e)
             k == CHOOSE k \in 1..(m - 2) :
                      /\ WellFormedPostfix(SubSeq(e, 1, k))
                      /\ WellFormedPostfix(SubSeq(e, k + 1, m - 1))
             l == PostfixValue(SubSeq(e, 1, k))
             r == PostfixValue(SubSeq(e, k + 1, m - 1))
         IN  IF l.exc # "" THEN l
             ELSE IF r.exc # "" THEN r
             ELSE _eval_op(l.v, r.v, e[m])

\* the value of a well-formed prefix expression: (lhs op rhs), by structure
RECURSIVE PrefixValue(_)
PrefixValue(e) ==
    IF Len(e) = 1 THEN _tokenize_expr(e[1])
    ELSE LET m == Len(e)
             k == CHOOSE k \in 2..(m - 1) :
                      /\ WellFormedPrefix(SubSeq(e, 2, k))
                      /\ WellFormedPrefix(SubSeq(e, k + 1, m))
             l == PrefixValue(SubSeq(e, 2, k))
             r == PrefixValue(SubSeq(e, k + 1, m))
         IN  IF l.exc # "" THEN l
             ELSE IF r.exc # "" THEN r
             ELSE _eval_op(l.v, r.v, e[1])

InvalidExpression(r) == r.kind = "error" /\ r.msg = "Invalid expression."

DivisionByZero(r) == r.kind = "error" /\ r.msg = "Can not divide by zero."

(***************************************************************************)
(* Several calls in a row.                                                 *)
(***************************************************************************)
KeptStack(old) == old

\* "operands = []" of eval_rpn._eval_expr, "token_stack = []" and
\* "count_stack = []" of eval_prefix._eval_expr: every call binds its stacks
\* to new empty lists, whatever an earlier call has left
NewStack(old) == <<>>

\* the record the caller keeps of a call that has ended
Ended == [notation |-> notation, expr |-> expr, result |-> result]

\* a further call of evaluator n on e, made once the previous call has ended
Call(n, e) ==
    /\ Done
    /\ notation' = n
    /\ expr' = e
    /\ pos' = 0
    /\ operands' = NewStack(operands)
    /\ token_stack' = NewStack(token_stack)
    /\ count_stack' = NewStack(count_stack)
    /\ pc' = "loop"
    /\ result' = NoResult
    /\ reductions' = 0
    /\ call' = call + 1

\* the tokens of a well-formed postfix expression in prefix order: the same
\* operators with the same left and right operands
RECURSIVE ToPrefixStack(_, _, _)
ToPrefixStack(e, i, st) ==
    IF i > Len(e) THEN st
    ELSE IF e[i] \in OPCODES
    THEN ToPrefixStack(e, i + 1,
             Append(SubSeq(st, 1, Len(st) - 2),
                    <<e[i]>> \o st[Len(st) - 1] \o st[Len(st)]))
    ELSE ToPrefixStack(e, i + 1, Append(st, <<e[i]>>))

ToPrefix(e) == ToPrefixStack(e, 1, <<>>)[1]

\* eval_postfix_expr(E) followed by eval_prefix_expr of the prefix form of E
CrossInputs == {e \in Inputs : WellFormedPostfix(e)}

InitCross ==
    /\ \E e \in CrossInputs : Start("postfix", e)
    /\ call = 1
    /\ first = NoCall

CrossCall ==
    /\ notation = "postfix" /\ call = 1
    /\ Call("prefix", ToPrefix(expr))
    /\ first' = Ended

NextCross ==
    \/ PostfixToken
    \/ PostfixFinish
    \/ CrossCall
    \/ PrefixToken
    \/ PrefixCascade
    \/ PrefixFinish

SpecCross == InitCross /\ [][NextCross]_vars

\* a call, then any other call, then the first call again
CallAlphabet == {"0", "1", "/", "$"}

CallInputs == SeqsUpTo(CallAlphabet, MaxCall) \cup Examples

Evaluators == {"postfix", "prefix", "reversal"}

InitCalls ==
    /\ \E n \in Evaluators : \E e \in CallInputs : Start(n, e)
    /\ call = 1
    /\ first = NoCall

OtherCall ==
    /\ call = 1
    /\ \E n \in Evaluators : \E e \in CallInputs : Call(n, e)
    /\ first' = Ended

RepeatCall ==
    /\ call = 2
    /\ Call(first.notation, first.expr)
    /\ UNCHANGED first

NextCalls ==
    \/ PostfixToken
    \/ PostfixFinish
    \/ ReversalEval
    \/ PrefixToken
    \/ PrefixCascade
    \/ PrefixFinish
    \/ OtherCall
    \/ RepeatCall

SpecCalls == InitCalls /\ [][NextCalls]_vars

(***************************************************************************)
(* C1.  For every well-formed postfix token sequence, eval_postfix_expr    *)
(* returns the value of the expression in which each operator is applied   *)
(* as (lhs op rhs), rhs being the operand pushed last and lhs the one      *)
(* pushed before it; "10 7 2 3 * + -" yields -3 and "10 5 * 6 2 + /"       *)
(* yields 6.25.                                                            *)
(***************************************************************************)
C1_PostfixValue ==
    (notation = "postfix" /\ Done /\ WellFormedPostfix(expr)) =>
        /\ PostfixValue(expr).exc = "" => result = Return(PostfixValue(expr).v)
        /\ expr = <<"10", "7", "2", "3", "*", "+", "-">> => result = Return(IntVal(-3))
        /\ expr = <<"10", "5", "*", "6", "2", "+", "/">> => result = Return(Rat(25, 4))

C1_Witness ==
    /\ notation = "postfix" /\ Done
    /\ expr = <<"10", "7", "2", "3", "*", "+", "-">>
    /\ result = Return(IntVal(-3))

(***************************************************************************)
(* C2.  For every well-formed prefix token sequence, the forward-scan      *)
(* eval_prefix_expr returns the value of the expression in which each      *)
(* operator is applied to its first following sub-expression as lhs and    *)
(* its second as rhs; "- 10 + 7 * 2 3" yields -3 and "/ * 10 5 + 6 2"      *)
(* yields 6.25.                                                            *)
(***************************************************************************)
C2_PrefixValue ==
    (notation = "prefix" /\ Done /\ WellFormedPrefix(expr)) =>
        /\ PrefixValue(expr).exc = "" => result = Return(PrefixValue(expr).v)
        /\ expr = <<"-", "10", "+", "7", "*", "2", "3">> => result = Return(IntVal(-3))
        /\ expr = <<"/", "*", "10", "5", "+", "6", "2">> => result = Return(Rat(25, 4))

C2_Witness ==
    /\ notation = "prefix" /\ Done
    /\ expr = <<"-", "10", "+", "7", "*", "2", "3">>
    /\ result = Return(IntVal(-3))

C4_PrefixRejects ==
    (notation = "prefix" /\ Done /\ AllValid(expr) /\ ~WellFormedPrefix(expr)) =>
        result = Raise("ValueError", "Invalid expression.")

(***************************************************************************)
(* C5.  In the forward-scan prefix evaluator, an input of valid tokens     *)
(* whose first token is a number and which has at least one further token  *)
(* fails with the invalid-expression error.                                *)
(***************************************************************************)
C5_LeadingNumber ==
    (notation = "prefix" /\ Done /\ AllValid(expr)
         /\ Len(expr) >= 2 /\ expr[1] \notin OPCODES) =>
        result = Raise("ValueError", "Invalid expression.")

(***************************************************************************)
(* C6.  In both evaluators, whenever "/", "//" or "%" is applied with a    *)
(* zero right-hand operand, the evaluation fails with the error            *)
(* "Can not divide by zero." and returns no value, wherever in the         *)
(* expression the operator occurs.                                         *)
(***************************************************************************)
DivisionOps == {"/", "//", "%"}

\* the next step applies a division operator to a zero right-hand operand
DividingByZero ==
    /\ pc = "loop"
    /\ \/ /\ notation = "postfix" /\ pos < Len(expr)
          /\ expr[pos + 1] \in DivisionOps
          /\ Len(operands) >= 2
          /\ IsZero(Top(operands))
       \/ /\ notation = "prefix" /\ Pending
          /\ Len(token_stack) >= 3
          /\ token_stack[Len(token_stack) - 2].k = "op"
          /\ token_stack[Len(token_stack) - 2].op \in DivisionOps
          /\ token_stack[Len(token_stack) - 1].k # "op"
          /\ IsZero(Top(token_stack))

C6_DivisionByZero == [][DividingByZero => (pc' = "done" /\ DivisionByZero(result'))]_vars

(***************************************************************************)
(* C7.  For every input that contains a token that is neither an operator  *)
(* symbol nor a parseable number, both evaluators fail with the            *)
(* invalid-symbol error naming that token, whatever its position: no       *)
(* other error is reported for such an input.                              *)
(***************************************************************************)
C7_InvalidSymbol ==
    (notation \in {"postfix", "prefix"} /\ Done /\ ~AllValid(expr)) =>
        /\ result.kind = "error" /\ result.msg = "Invalid symbol"
        /\ \E j \in 1..Len(expr) :
               _tokenize_expr(expr[j]).exc # "" /\ result.sym = expr[j]

(***************************************************************************)
(* C8.  For the empty input, eval_postfix_expr returns 0.                  *)
(***************************************************************************)
C8_PostfixEmpty ==
    (notation = "postfix" /\ Done /\ expr = <<>>) => result = Return(IntVal(0))

(***************************************************************************)
(* C9.  For the empty input, the forward-scan eval_prefix_expr returns 0.  *)
(***************************************************************************)
C9_PrefixEmpty ==
    (notation = "prefix" /\ Done /\ expr = <<>>) => result = Return(IntVal(0))

(***************************************************************************)
(* C10.  For every number n, the input that is the single token n          *)
(* evaluates to n under eval_postfix_expr and under eval_prefix_expr.      *)
(***************************************************************************)
C10_SingleNumber ==
    (notation \in {"postfix", "prefix"} /\ Done /\ Len(expr) = 1) =>
        /\ \A i \in (-MaxLit)..MaxLit :
               expr[1] = ToString(i) => result = Return(IntVal(i))
        /\ expr[1] = "0.5" => result = Return(Rat(1, 2))
        /\ expr[1] = "-0.5" => result = Return(Rat(-1, 2))

C10_Witness ==
    /\ notation = "prefix" /\ Done
    /\ expr = <<"34">>
    /\ result = Return(IntVal(34))

(***************************************************************************)
(* C12.  The reversal-strategy prefix evaluator, eval_prefix_expr of       *)
(* eval_rpn.py, returns for every valid prefix input the result of the     *)
(* forward-scan evaluator (by C2 the structural value, or its              *)
(* division-by-zero error), and never ends in an outcome other than a      *)
(* value or one of the evaluator's own error kinds.                        *)
(***************************************************************************)
OwnErrors == {"Invalid expression.", "Invalid operator.", "Invalid operator seen.",
              "Can not divide by zero.", "Invalid symbol"}

C12_ReversalAgrees ==
    (notation = "reversal" /\ Done) =>
        /\ result.kind = "value" \/ result.msg \in OwnErrors
        /\ (WellFormedPrefix(expr) /\ PrefixValue(expr).exc = "")
               => result = Return(PrefixValue(expr).v)
        /\ (WellFormedPrefix(expr) /\ PrefixValue(expr).exc = "ZeroDivisionError")
               => DivisionByZero(result)

(***************************************************************************)
(* C14.  In every reachable state of the forward-scan prefix evaluator     *)
(* every entry of the count stack is 0, 1 or 2; only the top entry can be  *)
(* 0, and once the processing of a token has finished (the cascade loop    *)
(* has no iteration left) no entry is 0.                                   *)
(***************************************************************************)
C14_CountRange ==
    notation = "prefix" =>
        /\ \A i \in 1..Len(count_stack) : count_stack[i] \in {0, 1, 2}
        /\ \A i \in 1..(Len(count_stack) - 1) : count_stack[i] \in {1, 2}
        /\ ~Pending => \A i \in 1..Len(count_stack) : count_stack[i] \in {1, 2}

C14_Witness ==
    /\ notation = "prefix" /\ pc = "loop"
    /\ count_stack = <<1, 0>>
    /\ reductions = 0

(***************************************************************************)
(* C15.  In the forward-scan prefix evaluator the number of operator       *)
(* symbols on the token stack equals the length of the count stack, and    *)
(* the i-th open operator has exactly (2 - its count) values directly      *)
(* above it; so when a top count of 0 is reduced the three pops find two   *)
(* values and then an operator symbol, and the "Invalid expression."       *)
(* handler of the cascade loop is never reached.                           *)
(***************************************************************************)
\* positions of the operator symbols on the token stack
OpPositions == {p \in 1..Len(token_stack) : token_stack[p].k = "op"}

\* the position of the i-th operator symbol from the bottom, Len + 1 past the last
OpPosition(i) ==
    IF i > Cardinality(OpPositions) THEN Len(token_stack) + 1
    ELSE CHOOSE p \in OpPositions : Cardinality({q \in OpPositions : q <= p}) = i

C15_StackShape ==
    (notation = "prefix" /\ pc = "loop") =>
        /\ Cardinality(OpPositions) = Len(count_stack)
        /\ \A i \in 1..Len(count_stack) :
               OpPosition(i + 1) - OpPosition(i) - 1 = 2 - count_stack[i]
        /\ Pending =>
               /\ Len(token_stack) >= 3
               /\ token_stack[Len(token_stack)].k # "op"
               /\ token_stack[Len(token_stack) - 1].k # "op"
               /\ token_stack[Len(token_stack) - 2].k = "op"

C15_Witness ==
    /\ notation = "prefix" /\ pc = "loop" /\ Pending
    /\ Len(count_stack) = 2
    /\ Len(token_stack) = 5

(***************************************************************************)
(* C16.  The unknown-operator failure is unreachable: eval_prefix_expr     *)
(* never raises "Invalid operator seen." and eval_postfix_expr never       *)
(* raises "Invalid operator.", because every non-numeric token the         *)
(* tokenizer yields is a key of the operator table.                        *)
(***************************************************************************)
C16_NoUnknownOperator ==
    /\ result.msg \notin {"Invalid operator seen.", "Invalid operator."}
    /\ result.exc # "KeyError"
    /\ \A i \in 1..Len(token_stack) :
           token_stack[i].k = "op" => token_stack[i].op \in OPCODES
    /\ \A i \in 1..Len(operands) : operands[i].k # "op"

C16_Witness ==
    /\ notation = "prefix" /\ Done
    /\ expr = <<"+", "$">>
    /\ result = InvalidSymbol("$")

(***************************************************************************)
(* C18.  In the postfix evaluator, after each token processed without      *)
(* error the operand stack size equals the number of number tokens         *)
(* processed minus the number of operator tokens processed and is at       *)
(* least 1; the stack holds only values, never operator symbols.           *)
(***************************************************************************)
C18_OperandCount ==
    (notation = "postfix" /\ pc = "loop" /\ pos >= 1) =>
        /\ Len(operands) = Depth(expr, pos)
        /\ Len(operands) >= 1
        /\ \A i \in 1..Len(operands) : operands[i].k \in {"num", "complex", "inexact"}

C18_Witness ==
    /\ notation = "postfix" /\ pc = "loop"
    /\ expr = <<"10", "7", "2", "3", "*", "+", "-">>
    /\ pos = 6
    /\ Len(operands) = 2


(***************************************************************************)
(* C17: termination and resources.                                         *)
(***************************************************************************)
\* the inputs of the runs checked for termination
FairInputs ==
    SeqsUpTo(Alphabet, MaxFair) \cup SeqsUpTo(DeepAlphabet, MaxFair + 2)
        \cup SeqsUpTo(PowAlphabet, MaxFair + 2) \cup Examples

InitFair ==
    /\ \E n \in Evaluators : \E e \in FairInputs : Start(n, e)
    /\ call = 1
    /\ first = NoCall

\* the interpreter keeps running a call: a step that can be taken is taken
SpecFair == InitFair /\ [][Next]_vars /\ WF_vars(Next)

\* the number of operator tokens of an input
NumOps(e) == Cardinality({j \in 1..Len(e) : e[j] \in OPCODES})

\* C17: every run ends with a value or an error; the position in the token
\* stream never passes the end and every step that does not take a new token
\* is a cascade reduction or comes after the last token, so that each token
\* is taken at most once; and the forward scan makes at most as many cascade
\* reductions as the input has operator tokens.
C17_Terminates ==
    /\ <>(Done /\ result.kind \in {"value", "error"})
    /\ [](pos <= Len(expr) /\ reductions <= NumOps(expr))
    /\ [][\/ pos' > pos
          \/ /\ pos' = pos
             /\ \/ reductions' = reductions + 1
                \/ pos = Len(expr)
                \/ notation = "reversal"]_vars

\* a forward scan that has ended after as many reductions as operators (3),
\* with every token taken
C17_Witness ==
    /\ notation = "prefix" /\ Done
    /\ expr = <<"-", "10", "+", "7", "*", "2", "3">>
    /\ pos = Len(expr)
    /\ reductions = 3
    /\ result.kind = "value"


(***************************************************************************)
(* C11: cross-notation equivalence.                                        *)
(***************************************************************************)
\* two calls end alike: both return the same value, or both fail with the
\* same error (of the same class where the evaluators do not catch it)
SameOutcome(a, b) ==
    /\ a.kind = b.kind
    /\ a.v = b.v
    /\ a.msg = b.msg
    /\ a.sym = b.sym
    /\ a.msg = "" => a.exc = b.exc

\* C11: for every valid postfix expression E, eval_prefix_expr on the prefix
\* form of E (same operators, same left and right operands) ends as
\* eval_postfix_expr(E) did: the same value, or the same failure, division
\* by zero included.
C11_CrossNotation ==
    (call = 2 /\ Done) =>
        /\ notation = "prefix" /\ first.notation = "postfix"
        /\ expr = ToPrefix(first.expr)
        /\ first.result.kind \in {"value", "error"}
        /\ SameOutcome(result, first.result)
        /\ DivisionByZero(first.result) <=> DivisionByZero(result)

\* "10 5 * 6 2 + /" and its prefix form "/ * 10 5 + 6 2" both gave 6.25
C11_Witness ==
    /\ call = 2 /\ Done
    /\ first.expr = <<"10", "5", "*", "6", "2", "+", "/">>
    /\ first.result = Return(Rat(25, 4))
    /\ expr = <<"/", "*", "10", "5", "+", "6", "2">>
    /\ result = Return(Rat(25, 4))

(***************************************************************************)
(* C13: no state is carried from one call to the next.                     *)
(***************************************************************************)
\* C13: when an input is evaluated, then any input (the same or another one,
\* failing ones included) is evaluated by any evaluator, and then the first
\* input is evaluated again by the first evaluator, the third call ends
\* exactly as the first did.  (OPCODES is never assigned to by the code and is
\* a constant of the model.)
C13_SameOutcomeAgain ==
    (call = 3 /\ Done) =>
        /\ notation = first.notation /\ expr = first.expr
        /\ result = first.result

\* the third call has returned 1 for "1", as the first did, whatever the call
\* in between left on its stacks
C13_Witness ==
    /\ call = 3 /\ Done
    /\ notation = "postfix"
    /\ expr = <<"1">> /\ first.expr = <<"1">>
    /\ first.result = Return(IntVal(1))
    /\ result = Return(IntVal(1))

=============================================================================
